---- MODULE Spec2Model ----
(***************************************************************************)
(* Kiga-ers: the home page's swipe / pagination state machine              *)
(* (apps/web/src/app/page.tsx, latest variant: src/unnamed/part_012) and   *)
(* the liked-paper store (apps/web/src/contexts/LikedPapersContext.tsx)    *)
(* with its localStorage persistence, and the summarize endpoint           *)
(* (apps/web/src/app/api/summarize/route.ts: src/unnamed/part_000).        *)
(*                                                                         *)
(* React is modelled as follows.  The variables are the committed state    *)
(* of the component (useState values and useRef cells).  One action is one *)
(* event handler, timer callback or promise continuation: its state        *)
(* updates are batched, the component re-renders, and the effects whose    *)
(* dependencies changed run, all inside the action.  A closure that        *)
(* outlives its render (a setTimeout callback, the continuation after an   *)
(* await) keeps the values it captured: they are stored with the timer or  *)
(* with the request in flight.                                             *)
(***************************************************************************)
EXTENDS Integers, Sequences, FiniteSets, Bags, TLC

VARIABLES
    papers,             \* useState<Paper[]>                     part_012:19
    currentPaperIndex,  \* useState(0)                            part_012:20
    likedPapers,        \* LikedPapersContext: useState<Paper[]>  LikedPapersContext.tsx:35
    message,            \* useState<string | null>                part_012:22
    isLoading,          \* useState(true)                         part_012:23
    currentSearchTerm,  \* useState('')                           part_012:26
    hasMorePapers,      \* useState(true)                         part_012:27
    interactionState,   \* useState({isSwiping, ...})             part_012:29-31
    touchStartX,        \* useRef<number | null>: <<>> is null    part_012:34
    touchCurrentX,      \* useRef<number | null>                  part_012:35
    touchStartY,        \* useRef<number | null>                  part_012:36
    canFetchMoreRef,    \* useRef(true)                           part_012:37
    inFlight,           \* fetch() calls awaiting their response  part_012:82
    refTimers,          \* pending setTimeout(..., 300)           part_012:127
    flyTimers,          \* pending setTimeout(goToNextPaper, 600) part_012:197,202
    isLoadingPersistence, \* LikedPapersContext: useState(true)  LikedPapersContext.tsx:36
    localStorageItem,   \* localStorage[LOCAL_STORAGE_KEY]       LikedPapersContext.tsx:32
    pendingLoad,        \* state updates queued by the load effect, not yet rendered
    isSummarizing,      \* useState<string | null>(null)         part_012:24
    summarizeInFlight,  \* fetch('/api/summarize') calls awaiting their response  part_012:174
    GEMINI_API_KEY,     \* process.env.GEMINI_API_KEY of the server  part_000:8
    detailPage,         \* PaperDetailPage: its useState values   library/[paperId]/page.tsx:21-26
    askInFlight,        \* fetch('/api/ask-ai') calls awaiting their response  page.tsx:64
    ev,                 \* history: the handler that ran last and its inputs
    shortSeen,          \* history: terms that got a short page since the last submission
    vScrolled           \* history: a touch-move of the current drag was a vertical scroll

vars == <<papers, currentPaperIndex, likedPapers, message, isLoading,
          currentSearchTerm, hasMorePapers, interactionState, touchStartX,
          touchCurrentX, touchStartY, canFetchMoreRef, inFlight, refTimers,
          flyTimers, isLoadingPersistence, localStorageItem, pendingLoad,
          isSummarizing, summarizeInFlight, GEMINI_API_KEY,
          detailPage, askInFlight,
          ev, shortSeen, vScrolled>>

----------------------------------------------------------------------------
(* Program constants *)

END_OF_FEED_CARD_ID_PAGE == "___END_OF_FEED___"
SWIPE_THRESHOLD_PAGE == 70
SWIPE_MAX_ROTATION_PAGE == 12
SWIPE_TRANSLATE_X_SCALE_PAGE_x10 == 11
VISIBLE_CARDS_IN_STACK_PAGE == 2
MAX_RESULTS_PER_FETCH_PAGE == 10
VSCROLL_RATIO_x10 == 18
VSCROLL_MIN == 15

(* Bounds of the model *)

MaxInFlight == 2     \* fetches not yet settled when a search is submitted
MaxFlyTimers == 2    \* pending 600 ms fly-out timers
MaxLikes == 1        \* length of the liked list on the home page
MaxStoreLen == 2     \* length of the liked list in the store's own specification
MaxSummarizeInFlight == 2  \* summarize requests not yet answered
MaxSummaries == 1    \* papers of the Result Set that got a summary
MaxChatLen == 4      \* messages of the chat history of the detail page

----------------------------------------------------------------------------
(* Values *)

Null == <<>>
Some(x) == <<x>>
Val(o) == o[1]

Min(a, b) == IF a < b THEN a ELSE b
Max(a, b) == IF a > b THEN a ELSE b
Abs(a) == IF a < 0 THEN -a ELSE a

(* The arXiv entries without a link titled "pdf": their pdfLink is ''. *)
NoPdfLink == {"a02", "b02"}

PdfLinkOf(id) == IF id \in NoPdfLink THEN "" ELSE "pdf"

Paper(id) ==
    [id |-> id, isEndOfFeedCard |-> FALSE, aiSummary |-> "", pdfLink |-> PdfLinkOf(id)]

EndOfFeedCard ==
    [id |-> END_OF_FEED_CARD_ID_PAGE, isEndOfFeedCard |-> TRUE, aiSummary |-> "",
     pdfLink |-> ""]

NeutralInteraction ==
    [isSwiping |-> FALSE, cardTransform |-> Null, feedbackColor |-> "",
     flyingDirection |-> "null"]

(* Search terms are sequences of characters, so that trim() is computed. *)
RECURSIVE TrimStart(_)
TrimStart(s) ==
    IF s # <<>> /\ Head(s) = " " THEN TrimStart(Tail(s)) ELSE s

RECURSIVE TrimEnd(_)
TrimEnd(s) ==
    IF s # <<>> /\ s[Len(s)] = " " THEN TrimEnd(SubSeq(s, 1, Len(s) - 1)) ELSE s

Trim(s) == TrimEnd(TrimStart(s))

Ids(ps) == {ps[i].id : i \in DOMAIN ps}

NoDuplicateIds(ps) == \A i, j \in DOMAIN ps : ps[i].id = ps[j].id => i = j

IsReal(p) == ~p.isEndOfFeedCard

RealPapers(ps) == SelectSeq(ps, IsReal)

HasEndCard(ps) == \E i \in DOMAIN ps : ps[i].id = END_OF_FEED_CARD_ID_PAGE

----------------------------------------------------------------------------
(* The environment: what /api/papers may answer.  The catalogue of a term   *)
(* is what the remote search holds for it; a response is a page of it.     *)

Catalogue(term) ==
    IF term = <<>>
    THEN <<"a01", "a02", "a03", "a04", "a05", "a06", "a07", "a08", "a09", "a10",
           "a11", "a12">>
    ELSE <<"b01", "b02">>

RawQueries == {<<>>, <<" ", "q", " ">>}

Window(cat, start, n) ==
    IF start >= Len(cat) THEN <<>>
    ELSE SubSeq(cat, start + 1, Min(start + n, Len(cat)))

AsPapers(ids) == [i \in DOMAIN ids |-> Paper(ids[i])]

(* The pages a request may be answered with: the page at the requested     *)
(* offset, the page one result earlier (the remote ordering moved), the    *)
(* first page again (route.ts:132 sends start=0 whatever was asked), no    *)
(* results, and a page with two entries of one identifier (route.ts:167    *)
(* cuts the identifier at the first "v"): the identifier at the requested  *)
(* offset, or the first one when the catalogue ends before it.             *)
Responses(req) ==
    LET cat == Catalogue(req.term)
        twice == IF req.offset < Len(cat) THEN cat[req.offset + 1] ELSE cat[1]
    IN  { AsPapers(Window(cat, req.offset, MAX_RESULTS_PER_FETCH_PAGE)),
          AsPapers(Window(cat, Max(req.offset - 1, 0), MAX_RESULTS_PER_FETCH_PAGE)),
          AsPapers(Window(cat, 0, MAX_RESULTS_PER_FETCH_PAGE)),
          <<>>,
          AsPapers(<<twice, twice>>) }

(* Touch coordinates: a touch starts at (100, 100) and moves to (x, y).    *)
TouchStarts == {<<100, 100>>}
TouchXs == {29, 30, 108, 170, 171}
TouchYs == {100, 115, 116, 300}

----------------------------------------------------------------------------
(* The liked-paper store's persistence.  A stored string is modelled by    *)
(* what JSON.parse makes of it: text "null" is the missing item, "" the    *)
(* empty string, "{corrupt" a string JSON.parse throws on, "{}" a value    *)
(* that is no array, and "array" the serialisation of the list in items.   *)
(* A model record with an id stands for an entry whose id and title are    *)
(* strings; an entry with title |-> Null has no title, an entry without    *)
(* the field id no id.                                                     *)

LocalStorageNull == [text |-> "null"]

JSONstringify(ps) == [text |-> "array", items |-> ps]

JSONparseThrows(item) == item.text = "{corrupt"

ExpectedFormat(item) ==
    /\ item.text = "array"
    /\ \A i \in DOMAIN item.items :
          /\ "id" \in DOMAIN item.items[i]
          /\ "title" \in DOMAIN item.items[i] => item.items[i].title # Null

(* Variant of loadEffect that takes any parsed array as the list. *)
loadEffectUnchecked(s) ==
    LET savedPapers == s.localStorageItem
    IN  IF savedPapers.text \in {"null", ""}
        THEN [s EXCEPT !.pendingLoad = Some(s.likedPapers)]
        ELSE IF ~JSONparseThrows(savedPapers) /\ savedPapers.text = "array"
             THEN [s EXCEPT !.pendingLoad = Some(savedPapers.items)]
             ELSE [s EXCEPT !.localStorageItem = LocalStorageNull,
                            !.pendingLoad = Some(s.likedPapers)]

(* The first effect of LikedPapersProvider: setLikedPapers(parsedPapers)   *)
(* and setIsLoadingPersistence(false) are queued for the next render.      *)
loadEffect(s) ==
    LET savedPapers == s.localStorageItem
    IN  IF savedPapers.text \in {"null", ""}
        THEN [s EXCEPT !.pendingLoad = Some(s.likedPapers)]
        ELSE IF ~JSONparseThrows(savedPapers) /\ ExpectedFormat(savedPapers)
             THEN [s EXCEPT !.pendingLoad = Some(savedPapers.items)]
             ELSE [s EXCEPT !.localStorageItem = LocalStorageNull,
                            !.pendingLoad = Some(s.likedPapers)]

(* Variant of saveEffect without the isLoadingPersistence test. *)
saveEffectWhileLoading(s) ==
    [s EXCEPT !.localStorageItem = JSONstringify(s.likedPapers)]

(* The second effect of LikedPapersProvider. *)
saveEffect(s) ==
    IF ~s.isLoadingPersistence
    THEN [s EXCEPT !.localStorageItem = JSONstringify(s.likedPapers)]
    ELSE s

(* The provider re-renders: the save effect runs when one of its           *)
(* dependencies changed.                                                   *)
ProviderRender(prevLikedPapers, prevIsLoadingPersistence, new) ==
    IF \/ new.likedPapers # prevLikedPapers
       \/ new.isLoadingPersistence # prevIsLoadingPersistence
    THEN saveEffect(new)
    ELSE new

----------------------------------------------------------------------------
(* The component's state as one record, so that handlers compose. *)

Cur ==
    [papers |-> papers, currentPaperIndex |-> currentPaperIndex,
     likedPapers |-> likedPapers, message |-> message, isLoading |-> isLoading,
     currentSearchTerm |-> currentSearchTerm, hasMorePapers |-> hasMorePapers,
     interactionState |-> interactionState, touchStartX |-> touchStartX,
     touchCurrentX |-> touchCurrentX, touchStartY |-> touchStartY,
     canFetchMoreRef |-> canFetchMoreRef, inFlight |-> inFlight,
     refTimers |-> refTimers, flyTimers |-> flyTimers,
     isLoadingPersistence |-> isLoadingPersistence,
     localStorageItem |-> localStorageItem, pendingLoad |-> pendingLoad,
     isSummarizing |-> isSummarizing, summarizeInFlight |-> summarizeInFlight,
     GEMINI_API_KEY |-> GEMINI_API_KEY,
     detailPage |-> detailPage, askInFlight |-> askInFlight,
     ev |-> ev, shortSeen |-> shortSeen, vScrolled |-> vScrolled]

(* The next state is the record u. *)
Commit(u) ==
    /\ papers' = u.papers
    /\ currentPaperIndex' = u.currentPaperIndex
    /\ likedPapers' = u.likedPapers
    /\ message' = u.message
    /\ isLoading' = u.isLoading
    /\ currentSearchTerm' = u.currentSearchTerm
    /\ hasMorePapers' = u.hasMorePapers
    /\ interactionState' = u.interactionState
    /\ touchStartX' = u.touchStartX
    /\ touchCurrentX' = u.touchCurrentX
    /\ touchStartY' = u.touchStartY
    /\ canFetchMoreRef' = u.canFetchMoreRef
    /\ inFlight' = u.inFlight
    /\ refTimers' = u.refTimers
    /\ flyTimers' = u.flyTimers
    /\ isLoadingPersistence' = u.isLoadingPersistence
    /\ localStorageItem' = u.localStorageItem
    /\ pendingLoad' = u.pendingLoad
    /\ isSummarizing' = u.isSummarizing
    /\ summarizeInFlight' = u.summarizeInFlight
    /\ GEMINI_API_KEY' = u.GEMINI_API_KEY
    /\ detailPage' = u.detailPage
    /\ askInFlight' = u.askInFlight
    /\ ev' = u.ev
    /\ shortSeen' = u.shortSeen
    /\ vScrolled' = u.vScrolled

(* The batched updates of a handler are committed; the provider's save    *)
(* effect runs on the committed state.                                     *)
Becomes(t) == Commit(ProviderRender(likedPapers, isLoadingPersistence, t))

Request(isInitialOrNewSearch, term, offset) ==
    [isInitialOrNewSearch |-> isInitialOrNewSearch, term |-> term, offset |-> offset]

----------------------------------------------------------------------------
(* fetchPapers, up to its await. *)

FetchGuard(s, isInitialOrNewSearch) ==
    isInitialOrNewSearch
    \/ (~s.isLoading /\ s.hasMorePapers /\ s.canFetchMoreRef)

(* Variant of OffsetForRequest that always asks for the first page. *)
OffsetZeroForRequest(s, isInitialOrNewSearch, offsetForFetch) == 0

OffsetForRequest(s, isInitialOrNewSearch, offsetForFetch) == offsetForFetch

(* Variant of ResetOnNewSearch that keeps the previous result set. *)
KeepOnNewSearch(s, isInitialOrNewSearch) == s

ResetOnNewSearch(s, isInitialOrNewSearch) ==
    IF isInitialOrNewSearch
    THEN [s EXCEPT !.papers = <<>>, !.currentPaperIndex = 0, !.hasMorePapers = TRUE]
    ELSE [s EXCEPT !.message = "loadingMore"]

fetchPapersBegin(s, isInitialOrNewSearch, termToSearchForFetch, offsetForFetch) ==
    IF ~FetchGuard(s, isInitialOrNewSearch) THEN s
    ELSE LET r == ResetOnNewSearch(s, isInitialOrNewSearch)
         IN  [r EXCEPT
                !.isLoading = TRUE,
                !.canFetchMoreRef = FALSE,
                !.interactionState = NeutralInteraction,
                !.inFlight = @ (+) SetToBag({Request(isInitialOrNewSearch,
                                Trim(termToSearchForFetch),
                                OffsetForRequest(s, isInitialOrNewSearch, offsetForFetch))})]

(* The additional-load effect. *)
ThresholdIndex(actualPapersLength) ==
    IF actualPapersLength > VISIBLE_CARDS_IN_STACK_PAGE
    THEN actualPapersLength - VISIBLE_CARDS_IN_STACK_PAGE
    ELSE IF actualPapersLength > 0 THEN actualPapersLength - 1 ELSE 0

loadMoreEffect(s) ==
    LET actualPapersLength == Len(RealPapers(s.papers))
        needsMoreFetch == actualPapersLength > 0
                          /\ s.currentPaperIndex >= ThresholdIndex(actualPapersLength)
    IN  IF needsMoreFetch /\ ~s.isLoading /\ s.hasMorePapers
           /\ ~HasEndCard(s.papers) /\ s.canFetchMoreRef
        THEN fetchPapersBegin(s, FALSE, s.currentSearchTerm, actualPapersLength)
        ELSE s

(* A re-render: the effect runs when one of its dependencies changed.      *)
(* papersSet: setPapers was given a new array in this batch.               *)
Render(old, new, papersSet) ==
    IF \/ papersSet
       \/ new.currentPaperIndex # old.currentPaperIndex
       \/ new.currentSearchTerm # old.currentSearchTerm
       \/ new.isLoading # old.isLoading
       \/ new.hasMorePapers # old.hasMorePapers
    THEN loadMoreEffect(new)
    ELSE new

----------------------------------------------------------------------------
(* fetchPapers, after its await: the response arrived. *)

PageIsFull(data) == Len(data) = MAX_RESULTS_PER_FETCH_PAGE

(* Variant of setPapersUpdater that keeps the end-of-feed card of          *)
(* prevPapers where it is.                                                 *)
setPapersUpdaterKeepingEndCard(prevPapers, data, isInitialOrNewSearch) ==
    LET existingIds == Ids(prevPapers)
        IsNew(p) == p.id \notin existingIds
        updatedPapersArray == IF isInitialOrNewSearch THEN data
                              ELSE prevPapers \o SelectSeq(data, IsNew)
    IN  IF ~PageIsFull(data) /\ Len(updatedPapersArray) > 0
           /\ ~HasEndCard(updatedPapersArray)
        THEN Append(updatedPapersArray, EndOfFeedCard)
        ELSE updatedPapersArray

(* The updater given to setPapers. *)
setPapersUpdater(prevPapers, data, isInitialOrNewSearch) ==
    LET currentRealPapers == RealPapers(prevPapers)
        existingIds == Ids(currentRealPapers)
        IsNew(p) == p.id \notin existingIds
        newUniquePapers == SelectSeq(data, IsNew)
        updatedPapersArray == IF isInitialOrNewSearch THEN data
                              ELSE currentRealPapers \o newUniquePapers
    IN  IF ~PageIsFull(data) /\ Len(updatedPapersArray) > 0
           /\ ~HasEndCard(updatedPapersArray)
        THEN Append(updatedPapersArray, EndOfFeedCard)
        ELSE updatedPapersArray

(* Variant of fetchPapersResolve that takes any non-empty page as a sign   *)
(* of more results.                                                        *)
fetchPapersResolveMoreUnlessEmpty(s, req, data) ==
    [s EXCEPT
       !.papers = setPapersUpdater(@, data, req.isInitialOrNewSearch),
       !.hasMorePapers = Len(data) > 0,
       !.message = IF Len(data) > 0 \/ req.isInitialOrNewSearch THEN "null" ELSE @,
       !.isLoading = FALSE,
       !.refTimers = @ + 1]

fetchPapersResolve(s, req, data) ==
    [s EXCEPT
       !.papers = setPapersUpdater(@, data, req.isInitialOrNewSearch),
       !.hasMorePapers = PageIsFull(data),
       !.message = IF Len(data) > 0 \/ req.isInitialOrNewSearch THEN "null" ELSE @,
       !.isLoading = FALSE,
       !.refTimers = @ + 1]

(* Variant of fetchPapersReject that leaves hasMorePapers as it is. *)
fetchPapersRejectKeepingMore(s, req) ==
    [s EXCEPT
       !.message = IF req.isInitialOrNewSearch THEN "loadError" ELSE "moreError",
       !.papers = IF req.isInitialOrNewSearch THEN <<>> ELSE @,
       !.isLoading = FALSE,
       !.refTimers = @ + 1]

(* fetchPapers, after its await: the request failed or was answered non-2xx. *)
fetchPapersReject(s, req) ==
    [s EXCEPT
       !.hasMorePapers = FALSE,
       !.message = IF req.isInitialOrNewSearch THEN "loadError" ELSE "moreError",
       !.papers = IF req.isInitialOrNewSearch THEN <<>> ELSE @,
       !.isLoading = FALSE,
       !.refTimers = @ + 1]

----------------------------------------------------------------------------
(* The liked-paper store. *)

(* Variant of addLikedPaper without the membership test. *)
AppendLikedPaper(prevPapers, paper) == Append(prevPapers, paper)

addLikedPaper(prevPapers, paper) ==
    IF \A i \in DOMAIN prevPapers : prevPapers[i].id # paper.id
    THEN Append(prevPapers, paper)
    ELSE prevPapers

(* Variant of removeLikedPaper that drops the oldest entry. *)
removeOldestLikedPaper(prevPapers, paperId) ==
    IF prevPapers = <<>> THEN prevPapers ELSE Tail(prevPapers)

removeLikedPaper(prevPapers, paperId) ==
    LET Keep(p) == p.id # paperId IN SelectSeq(prevPapers, Keep)

(* if (isLoadingPersistence) return false; likedPapers.some(...) *)
isPaperLiked(s, paperId) ==
    IF s.isLoadingPersistence THEN FALSE
    ELSE \E i \in DOMAIN s.likedPapers : s.likedPapers[i].id = paperId

updateLikedPaperSummary(prevPapers, paperId, aiSummary) ==
    [i \in DOMAIN prevPapers |->
        IF prevPapers[i].id = paperId
        THEN [prevPapers[i] EXCEPT !.aiSummary = aiSummary]
        ELSE prevPapers[i]]

clearLikedPapers(prevPapers) == <<>>

----------------------------------------------------------------------------
(* Card interaction. *)

resetCardInteraction(s) ==
    [s EXCEPT !.interactionState = NeutralInteraction,
              !.touchStartX = Null, !.touchCurrentX = Null, !.touchStartY = Null]

(* goToNextPaper as captured by a fly-out timer: papersLength is the       *)
(* papers.length of the render that created the callback.                  *)
goToNextPaper(s, papersLength) ==
    [resetCardInteraction(s) EXCEPT
       !.currentPaperIndex = Min(@ + 1, papersLength)]

(* setTimeout(() => goToNextPaper(), 600): the callback keeps the          *)
(* papers.length of its render; it fires after every 300 ms timer that was *)
(* already pending when it was set.                                        *)
FlyOutTimeout(s) == [papersLength |-> Len(s.papers), after |-> s.refTimers]

handleLike(s, paper) ==
    [s EXCEPT
       !.likedPapers = addLikedPaper(@, paper),
       !.interactionState = [@ EXCEPT !.isSwiping = FALSE, !.flyingDirection = "right",
                                      !.feedbackColor = "feedbackPinkLike",
                                      !.cardTransform = Null],
       !.flyTimers = Append(@, FlyOutTimeout(s))]

handleDislike(s) ==
    [s EXCEPT
       !.interactionState = [@ EXCEPT !.isSwiping = FALSE, !.flyingDirection = "left",
                                      !.feedbackColor = "feedbackLimeDislike",
                                      !.cardTransform = Null],
       !.flyTimers = Append(@, FlyOutTimeout(s))]

(* Variant of handleTouchStart without the flyingDirection guard. *)
handleTouchStartWhileFlying(s, x, y) ==
    [s EXCEPT
        !.interactionState = [@ EXCEPT !.isSwiping = TRUE, !.cardTransform = Null,
                                       !.feedbackColor = ""],
        !.touchStartX = Some(x), !.touchCurrentX = Some(x), !.touchStartY = Some(y)]

handleTouchStart(s, x, y) ==
    IF s.interactionState.flyingDirection # "null" THEN s
    ELSE [s EXCEPT
            !.interactionState = [@ EXCEPT !.isSwiping = TRUE, !.cardTransform = Null,
                                           !.feedbackColor = ""],
            !.touchStartX = Some(x), !.touchCurrentX = Some(x), !.touchStartY = Some(y)]

(* Variant of IsVerticalScroll with the minimum at 150 instead of 15. *)
IsVerticalScrollBeyond150(diffX, diffY) ==
    diffY * 10 > Abs(diffX) * VSCROLL_RATIO_x10 /\ diffY > 150

(* diffY > Math.abs(diffX) * 1.8 && diffY > 15, in tenths *)
IsVerticalScroll(diffX, diffY) ==
    diffY * 10 > Abs(diffX) * VSCROLL_RATIO_x10 /\ diffY > VSCROLL_MIN

FeedbackColor(diffX) ==
    IF Abs(diffX) * 2 > SWIPE_THRESHOLD_PAGE
    THEN (IF diffX > 0 THEN "feedbackPinkLike" ELSE "feedbackLimeDislike")
    ELSE ""

(* translateX in tenths of a pixel; rotation as its numerator, over the    *)
(* card's offsetWidth.                                                     *)
CardTransform(diffX) ==
    Some([translateX10 |-> diffX * SWIPE_TRANSLATE_X_SCALE_PAGE_x10,
          rotationTimesWidth |-> diffX * SWIPE_MAX_ROTATION_PAGE])

TouchMoveIgnored(s) ==
    \/ s.touchStartX = Null
    \/ s.touchStartY = Null
    \/ s.interactionState.flyingDirection # "null"
    \/ ~s.interactionState.isSwiping

handleTouchMove(s, x, y) ==
    IF TouchMoveIgnored(s) THEN s
    ELSE LET diffX == x - Val(s.touchStartX)
             diffY == Abs(y - Val(s.touchStartY))
             t == [s EXCEPT !.touchCurrentX = Some(x)]
         IN  IF IsVerticalScroll(diffX, diffY)
             THEN resetCardInteraction(t)
             ELSE [t EXCEPT !.interactionState =
                       [@ EXCEPT !.cardTransform = CardTransform(diffX),
                                 !.feedbackColor = FeedbackColor(diffX)]]

(* Variant of SwipeDecision that also commits at the threshold. *)
SwipeDecisionAtThreshold(diffX) ==
    IF Abs(diffX) >= SWIPE_THRESHOLD_PAGE
    THEN (IF diffX > 0 THEN "right" ELSE "left")
    ELSE "null"

(* What a release with displacement diffX decides. *)
SwipeDecision(diffX) ==
    IF Abs(diffX) > SWIPE_THRESHOLD_PAGE
    THEN (IF diffX > 0 THEN "right" ELSE "left")
    ELSE "null"

handleTouchEnd(s) ==
    IF ~s.interactionState.isSwiping /\ s.interactionState.flyingDirection = "null" THEN s
    ELSE IF s.interactionState.flyingDirection # "null" THEN s
    ELSE IF s.touchStartX = Null \/ s.touchCurrentX = Null THEN resetCardInteraction(s)
    ELSE IF s.currentPaperIndex >= Len(s.papers) THEN resetCardInteraction(s)
    ELSE LET diffX == Val(s.touchCurrentX) - Val(s.touchStartX)
             currentPaper == s.papers[s.currentPaperIndex + 1]
         IN  CASE SwipeDecision(diffX) = "right" -> handleLike(s, currentPaper)
               [] SwipeDecision(diffX) = "left" -> handleDislike(s)
               [] OTHER -> resetCardInteraction(s)

(* handleSearchSubmit; the content of the search box is its input. *)
handleSearchSubmit(s, searchQuery) ==
    LET term == Trim(searchQuery)
        t == [s EXCEPT !.currentSearchTerm = term,
                       !.message = IF term # <<>> THEN "searching" ELSE "welcome"]
    IN  fetchPapersBegin(t, TRUE, term, 0)

(* The reload button of renderStatusDisplay. *)
ReloadButtonShown(s) ==
    /\ ~s.isLoading
    /\ Len(RealPapers(s.papers)) = 0
    /\ ~HasEndCard(s.papers)

handleReload(s) ==
    fetchPapersBegin([s EXCEPT !.message = "reloading"], TRUE, s.currentSearchTerm, 0)

(* What is rendered. *)
papersInStack(s) ==
    SubSeq(s.papers, s.currentPaperIndex + 1,
           Min(s.currentPaperIndex + VISIBLE_CARDS_IN_STACK_PAGE, Len(s.papers)))

StackShown(s) == Len(RealPapers(s.papers)) > 0 /\ Len(papersInStack(s)) > 0

----------------------------------------------------------------------------
(* AI summaries: the summarize endpoint. *)

(* A JSON value by its type; a string also by its text. *)
JSONString(v) == [type |-> "string", value |-> v]

(* Variant of InvalidPdfUrl that misses the empty string. *)
InvalidPdfUrlUnlessEmpty(body) == body.pdfUrl.type # "string"

(* !pdfUrl || typeof pdfUrl !== 'string' *)
InvalidPdfUrl(body) == body.pdfUrl.type # "string" \/ body.pdfUrl.value = ""

(* new URL(pdfUrl) throws. *)
NotAUrl(pdfUrl) == pdfUrl \in {"", "not a url"}

Answer(status, generationCalled, summary) ==
    [status |-> status, generationCalled |-> generationCalled, summary |-> summary]

(* POST of /api/summarize: the answers the handler can give to body when  *)
(* the server's key is key.  generationCalled: ai.files.upload or          *)
(* ai.models.generateContent was called.                                   *)
POST(key, body) ==
    IF key = Null THEN {Answer(500, FALSE, "")}
    ELSE IF ~body.parses THEN {Answer(500, FALSE, "")}
    ELSE IF InvalidPdfUrl(body) THEN {Answer(400, FALSE, "")}
    ELSE IF NotAUrl(body.pdfUrl.value) THEN {Answer(500, FALSE, "")}
    ELSE {Answer(500, FALSE, ""),           \* downloadFile threw
          Answer(500, TRUE, ""),            \* the generation API threw or gave no text
          Answer(200, TRUE, "summary")}

----------------------------------------------------------------------------
(* The papers endpoint, GET /api/papers: the parameters of the query it    *)
(* sends to the arXiv API for the search parameters of the request URL.    *)
(* A parameter is Null when the URL does not carry it; strings are         *)
(* sequences of characters, numbers of digits their values.                *)

DEFAULT_CATEGORY == <<"c", "a", "t", ":", "c", "s", ".", "A", "I">>

MAX_RESULTS == 10

(* Variant of GET that orders by submission date whatever the query. *)
GETSortingByDate(searchParams) ==
    LET query == searchParams.query
    IN  [search_query |-> IF query # Null /\ Val(query) # <<>> /\ Trim(Val(query)) # <<>>
                          THEN Trim(Val(query)) ELSE DEFAULT_CATEGORY,
         sortBy |-> "submittedDate",
         sortOrder |-> "descending",
         start |-> 0,
         max_results |-> MAX_RESULTS]

GET(searchParams) ==
    LET query == searchParams.query
        withQuery == query # Null /\ Val(query) # <<>> /\ Trim(Val(query)) # <<>>
    IN  [search_query |-> IF withQuery THEN Trim(Val(query)) ELSE DEFAULT_CATEGORY,
         sortBy |-> IF withQuery THEN "relevance" ELSE "submittedDate",
         sortOrder |-> "descending",
         start |-> 0,
         max_results |-> MAX_RESULTS]

----------------------------------------------------------------------------
(* AI summaries: the home page. *)

SummarizeRequest(paperId, pdfUrl) ==
    [paperId |-> paperId, body |-> [parses |-> TRUE, pdfUrl |-> JSONString(pdfUrl)]]

(* Variant of SummaryInProgress: the test of the library page's handler,  *)
(* isSummarizing === paperId.                                              *)
SummaryInProgressForPaper(s, paperId) == s.isSummarizing = Some(paperId)

(* if (isSummarizing ...) return *)
SummaryInProgress(s, paperId) == s.isSummarizing # Null

(* papers.find(p => p.id === paperId)?.aiSummary *)
HasAiSummary(s, paperId) ==
    \E i \in DOMAIN s.papers :
        /\ s.papers[i].id = paperId
        /\ \A j \in 1 .. i - 1 : s.papers[j].id # paperId
        /\ s.papers[i].aiSummary # ""

generateAiSummary(s, paperId, pdfUrl) ==
    IF SummaryInProgress(s, paperId) \/ pdfUrl = "" THEN s
    ELSE IF HasAiSummary(s, paperId) THEN s
    ELSE [s EXCEPT !.isSummarizing = Some(paperId),
                   !.summarizeInFlight = @ (+) SetToBag({SummarizeRequest(paperId, pdfUrl)})]

(* Variant of generateAiSummarySettle that clears isSummarizing only when   *)
(* the request succeeded.                                                  *)
generateAiSummarySettleKeepingMarker(s, req, answer) ==
    IF answer.status = 200
    THEN [s EXCEPT !.papers = [i \in DOMAIN @ |->
                                  IF @[i].id = req.paperId
                                  THEN [@[i] EXCEPT !.aiSummary = answer.summary]
                                  ELSE @[i]],
                   !.isSummarizing = Null]
    ELSE s

(* generateAiSummary after its await: the endpoint's answer arrived. *)
generateAiSummarySettle(s, req, answer) ==
    IF answer.status = 200
    THEN [s EXCEPT !.papers = [i \in DOMAIN @ |->
                                  IF @[i].id = req.paperId
                                  THEN [@[i] EXCEPT !.aiSummary = answer.summary]
                                  ELSE @[i]],
                   !.isSummarizing = Null]
    ELSE [s EXCEPT !.isSummarizing = Null]

(* PaperCard: the click handler of the button. *)
handleGenerateSummaryClick(s, paper) ==
    IF paper.pdfLink # "" THEN generateAiSummary(s, paper.id, paper.pdfLink) ELSE s

(* PaperCard renders the button on the k-th card of the stack. *)
GenerateButtonShown(s, k) ==
    /\ StackShown(s)
    /\ k < Len(papersInStack(s))
    /\ LET paper == papersInStack(s)[k + 1]
       IN  /\ ~paper.isEndOfFeedCard
           /\ paper.aiSummary = ""
           /\ s.isSummarizing # Some(paper.id)

----------------------------------------------------------------------------
(* The home page: the state after the first render and its mount effects   *)
(* (the initial fetchPapers(true, '', 0) is in flight), in a browser whose *)
(* storage held no liked list: the provider has loaded and saved [].  The  *)
(* server runs with its API key set.                                       *)

(* The useState values of the paper detail page at its first render; the   *)
(* route parameter paperId is kept with them.                              *)
DetailPageState ==
    [paperId |-> Null, paper |-> Null, question |-> <<>>, chatHistory |-> <<>>,
     isAskingAi |-> FALSE, aiError |-> Null]

BeforeMount ==
    [papers |-> <<>>, currentPaperIndex |-> 0, likedPapers |-> <<>>,
     message |-> "welcome", isLoading |-> TRUE, currentSearchTerm |-> <<>>,
     hasMorePapers |-> TRUE, interactionState |-> NeutralInteraction,
     touchStartX |-> Null, touchCurrentX |-> Null, touchStartY |-> Null,
     canFetchMoreRef |-> TRUE, inFlight |-> EmptyBag, refTimers |-> 0,
     flyTimers |-> <<>>, isLoadingPersistence |-> FALSE,
     localStorageItem |-> JSONstringify(<<>>), pendingLoad |-> Null,
     isSummarizing |-> Null, summarizeInFlight |-> EmptyBag,
     GEMINI_API_KEY |-> Some("key"),
     detailPage |-> DetailPageState, askInFlight |-> EmptyBag,
     ev |-> [op |-> "mount"], shortSeen |-> {}, vScrolled |-> FALSE]

Mounted == loadMoreEffect(fetchPapersBegin(BeforeMount, TRUE, <<>>, 0))

StartsAs(m) ==
    /\ papers = m.papers
    /\ currentPaperIndex = m.currentPaperIndex
    /\ likedPapers = m.likedPapers
    /\ message = m.message
    /\ isLoading = m.isLoading
    /\ currentSearchTerm = m.currentSearchTerm
    /\ hasMorePapers = m.hasMorePapers
    /\ interactionState = m.interactionState
    /\ touchStartX = m.touchStartX
    /\ touchCurrentX = m.touchCurrentX
    /\ touchStartY = m.touchStartY
    /\ canFetchMoreRef = m.canFetchMoreRef
    /\ inFlight = m.inFlight
    /\ refTimers = m.refTimers
    /\ flyTimers = m.flyTimers
    /\ isLoadingPersistence = m.isLoadingPersistence
    /\ localStorageItem = m.localStorageItem
    /\ pendingLoad = m.pendingLoad
    /\ isSummarizing = m.isSummarizing
    /\ summarizeInFlight = m.summarizeInFlight
    /\ GEMINI_API_KEY = m.GEMINI_API_KEY
    /\ detailPage = m.detailPage
    /\ askInFlight = m.askInFlight
    /\ ev = m.ev
    /\ shortSeen = m.shortSeen
    /\ vScrolled = m.vScrolled

Init == StartsAs(Mounted)

(* Fetches whose response or 300 ms timer is still to come. *)
Unsettled(s) == BagCardinality(s.inFlight) + s.refTimers

LikeWithinBound(s, paper) == Len(addLikedPaper(s.likedPapers, paper)) <= MaxLikes

(* The search form is submitted with searchQuery in the box. *)
SearchSubmit(searchQuery) ==
    /\ Unsettled(Cur) < MaxInFlight
    /\ LET new == handleSearchSubmit(Cur, searchQuery)
       IN  Becomes(Render(Cur, [new EXCEPT
                !.ev = [op |-> "searchSubmit", searchQuery |-> searchQuery,
                        wasLoading |-> isLoading, wasExhausted |-> ~hasMorePapers,
                        hadPapers |-> papers # <<>>],
                !.shortSeen = {}], TRUE))

Reload ==
    /\ ReloadButtonShown(Cur)
    /\ Unsettled(Cur) < MaxInFlight
    /\ Becomes(Render(Cur, [handleReload(Cur) EXCEPT
                !.ev = [op |-> "reload", term |-> currentSearchTerm],
                !.shortSeen = {}], TRUE))

(* The response of a request in flight arrives with page data. *)
FetchResolve(req, data) ==
    LET s == [Cur EXCEPT !.inFlight = @ (-) SetToBag({req})]
        new == fetchPapersResolve(s, req, data)
    IN  Becomes(Render(Cur, [new EXCEPT
             !.ev = [op |-> "resolve", req |-> req, data |-> data],
             !.shortSeen = IF PageIsFull(data) THEN @ ELSE @ \cup {req.term}],
             TRUE))

FetchReject(req) ==
    LET s == [Cur EXCEPT !.inFlight = @ (-) SetToBag({req})]
        new == fetchPapersReject(s, req)
    IN  Becomes(Render(Cur, [new EXCEPT !.ev = [op |-> "reject", req |-> req]],
                       req.isInitialOrNewSearch))

(* setTimeout(() => { canFetchMoreRef.current = true; }, 300) fires. *)
CanFetchMoreTimer ==
    /\ refTimers > 0
    /\ Becomes([Cur EXCEPT !.canFetchMoreRef = TRUE, !.refTimers = @ - 1,
                           !.flyTimers = [i \in DOMAIN @ |->
                                            [@[i] EXCEPT !.after = Max(0, @ - 1)]],
                           !.ev = [op |-> "refTimer"]])

(* setTimeout(() => goToNextPaper(), 600) fires: timers of equal delay     *)
(* fire in the order they were set.                                        *)
FlyOutTimer ==
    /\ flyTimers # <<>>
    /\ Head(flyTimers).after = 0
    /\ LET s == [Cur EXCEPT !.flyTimers = Tail(@)]
           new == goToNextPaper(s, Head(flyTimers).papersLength)
       IN  Becomes(Render(Cur, [new EXCEPT !.ev = [op |-> "flyOut"]], FALSE))

(* The like / dislike button of the k-th card of the stack (0 is the top   *)
(* card): PaperCard renders the buttons on every card that is no           *)
(* end-of-feed card.                                                       *)
ButtonShown(s, k) ==
    /\ StackShown(s)
    /\ k < Len(papersInStack(s))
    /\ ~papersInStack(s)[k + 1].isEndOfFeedCard

LikeClick(k) ==
    /\ ButtonShown(Cur, k)
    /\ Len(flyTimers) < MaxFlyTimers
    /\ LikeWithinBound(Cur, papersInStack(Cur)[k + 1])
    /\ Becomes([handleLike(Cur, papersInStack(Cur)[k + 1]) EXCEPT
                  !.ev = [op |-> "likeClick", paper |-> papersInStack(Cur)[k + 1]]])

DislikeClick(k) ==
    /\ ButtonShown(Cur, k)
    /\ Len(flyTimers) < MaxFlyTimers
    /\ Becomes([handleDislike(Cur) EXCEPT !.ev = [op |-> "dislikeClick"]])

(* A drag is in progress: touch-moves are tracked. *)
Dragging ==
    /\ interactionState.isSwiping
    /\ interactionState.flyingDirection = "null"
    /\ touchStartX # Null
    /\ touchStartY # Null

(* The displacement the spec calls a vertical scroll:                      *)
(* |dy| > 1.8 |dx| and |dy| > 15.                                          *)
VerticalScrollIntent(dx, dy) == Abs(dy) * 10 > Abs(dx) * 18 /\ Abs(dy) > 15

(* Touch events on the top card.  vScrolled records that a touch-move of   *)
(* the gesture in progress had a vertical-scroll displacement.             *)
TouchStart(x, y) ==
    /\ StackShown(Cur)
    /\ Becomes([handleTouchStart(Cur, x, y) EXCEPT
                  !.ev = [op |-> "touchStart"], !.vScrolled = FALSE])

TouchMove(x, y) ==
    /\ StackShown(Cur)
    /\ Becomes([handleTouchMove(Cur, x, y) EXCEPT
                  !.ev = [op |-> "touchMove"],
                  !.vScrolled = @ \/ (Dragging /\ VerticalScrollIntent(
                                         x - Val(touchStartX), y - Val(touchStartY)))])

(* touchend and touchcancel share the handler; diffX records the           *)
(* displacement of the drag that was released, if one was in progress.     *)
TouchEnd ==
    /\ StackShown(Cur)
    /\ LET new == handleTouchEnd(Cur)
       IN  /\ Len(new.flyTimers) <= MaxFlyTimers
           /\ Len(new.likedPapers) <= MaxLikes
           /\ Becomes([new EXCEPT !.ev =
                  [op |-> "touchEnd",
                   diffX |-> IF Dragging /\ touchCurrentX # Null
                             THEN Some(Val(touchCurrentX) - Val(touchStartX))
                             ELSE Null]])

(* The summary button of the k-th card of the stack. *)
Summarised(ps) == {i \in DOMAIN ps : ps[i].aiSummary # ""}

GenerateSummaryClick(k) ==
    /\ GenerateButtonShown(Cur, k)
    /\ BagCardinality(summarizeInFlight) < MaxSummarizeInFlight
    /\ Cardinality(Summarised(papers)) < MaxSummaries
    /\ LET paper == papersInStack(Cur)[k + 1]
       IN  Becomes([handleGenerateSummaryClick(Cur, paper) EXCEPT
                      !.ev = [op |-> "generateSummaryClick", paper |-> paper,
                              wasSummarizing |-> isSummarizing]])

(* fetch('/api/summarize') rejects: no answer arrives. *)
FetchFailed == Answer(0, FALSE, "")

(* The endpoint answers a request of the page, or the fetch fails. *)
SummarizeSettle(req, answer) ==
    LET s == [Cur EXCEPT !.summarizeInFlight = @ (-) SetToBag({req})]
        new == generateAiSummarySettle(s, req, answer)
    IN  Becomes(Render(Cur, [new EXCEPT
             !.ev = [op |-> "summarizeSettle", req |-> req, answer |-> answer]],
             answer.status = 200))

(* Any HTTP client posts body to the endpoint. *)
Bodies ==
    {[parses |-> FALSE]}
        \cup {[parses |-> TRUE, pdfUrl |-> v] :
                 v \in {[type |-> "undefined"], [type |-> "number"], JSONString(""),
                        JSONString("not a url"), JSONString("pdf")}}

ExternalPost(body, answer) ==
    /\ answer \in POST(GEMINI_API_KEY, body)
    /\ Becomes([Cur EXCEPT !.ev = [op |-> "post", body |-> body, answer |-> answer]])

(* Any HTTP client requests /api/papers with searchParams. *)
SearchParams ==
    [query : {Null} \cup {Some(q) : q \in {<<>>, <<" ">>, <<" ", " ">>, <<"q">>,
                                           <<" ", "q">>, <<"q", " ">>, <<" ", "q", " ">>,
                                           <<"q", " ", "r">>}},
     start : {Null, Some(0), Some(MAX_RESULTS_PER_FETCH_PAGE),
              Some(2 * MAX_RESULTS_PER_FETCH_PAGE)},
     max_results : {Null, Some(MAX_RESULTS_PER_FETCH_PAGE), Some(5)}]

PapersGet(searchParams) ==
    Becomes([Cur EXCEPT !.ev = [op |-> "get", searchParams |-> searchParams,
                                queryParams |-> GET(searchParams)]])

NoFetchInFlight == inFlight = EmptyBag

NoCardFlying == flyTimers = <<>>

(* Searches that overlap: a search may be submitted while fetches are in   *)
(* flight; whole result sets; the user rates cards with the dislike button *)
(* and waits for a card to fly out before rating the next.                 *)
Next ==
    \/ \E q \in RawQueries : SearchSubmit(q)
    \/ Reload
    \/ \E req \in BagToSet(inFlight) : \E data \in Responses(req) : FetchResolve(req, data)
    \/ \E req \in BagToSet(inFlight) : FetchReject(req)
    \/ CanFetchMoreTimer
    \/ FlyOutTimer
    \/ \E k \in 0 .. (VISIBLE_CARDS_IN_STACK_PAGE - 1) : NoCardFlying /\ DislikeClick(k)

Spec == Init /\ [][Next]_vars

(* Rapid rating: the dislike button may be pressed again while a card     *)
(* flies out; whole result sets; a search is submitted only when no fetch  *)
(* is in flight.                                                           *)
NextSwipe ==
    \/ \E q \in RawQueries : NoFetchInFlight /\ SearchSubmit(q)
    \/ Reload
    \/ \E req \in BagToSet(inFlight) : \E data \in Responses(req) : FetchResolve(req, data)
    \/ \E req \in BagToSet(inFlight) : FetchReject(req)
    \/ CanFetchMoreTimer
    \/ FlyOutTimer
    \/ \E k \in 0 .. (VISIBLE_CARDS_IN_STACK_PAGE - 1) : DislikeClick(k)

SpecSwipe == Init /\ [][NextSwipe]_vars

(* Touch input: drags on the top card beside the buttons, on result sets   *)
(* of one short page; a search is submitted only when no fetch is in       *)
(* flight.                                                                 *)
GestureQueries == {<<" ", "q", " ">>}

ShortResponses(req) == {data \in Responses(req) : ~PageIsFull(data)}

NextGesture ==
    \/ \E q \in GestureQueries : NoFetchInFlight /\ SearchSubmit(q)
    \/ Reload
    \/ \E req \in BagToSet(inFlight) : \E data \in ShortResponses(req) : FetchResolve(req, data)
    \/ \E req \in BagToSet(inFlight) : FetchReject(req)
    \/ CanFetchMoreTimer
    \/ FlyOutTimer
    \/ \E k \in 0 .. (VISIBLE_CARDS_IN_STACK_PAGE - 1) : LikeClick(k)
    \/ \E k \in 0 .. (VISIBLE_CARDS_IN_STACK_PAGE - 1) : DislikeClick(k)
    \/ \E xy \in TouchStarts : TouchStart(xy[1], xy[2])
    \/ \E x \in TouchXs, y \in TouchYs : TouchMove(x, y)
    \/ TouchEnd

SpecGesture == Init /\ [][NextGesture]_vars

(* AI summaries on the home page: cards are passed on with the dislike     *)
(* button, one at a time; the server runs with or without its API key.     *)
(* /api/papers answers with the page asked for, with the first page again, *)
(* or with a page of two entries of one identifier.                        *)
SummaryResponses(req) ==
    {data \in Responses(req) :
        \/ data = AsPapers(Window(Catalogue(req.term), req.offset, MAX_RESULTS_PER_FETCH_PAGE))
        \/ data = AsPapers(Window(Catalogue(req.term), 0, MAX_RESULTS_PER_FETCH_PAGE))
        \/ ~NoDuplicateIds(data)}

InitSummary ==
    \E key \in {Null, Some("key")} : StartsAs([Mounted EXCEPT !.GEMINI_API_KEY = key])

NextSummary ==
    \/ \E req \in BagToSet(inFlight) :
          \E data \in SummaryResponses(req) : FetchResolve(req, data)
    \/ CanFetchMoreTimer
    \/ FlyOutTimer
    \/ NoCardFlying /\ DislikeClick(0)
    \/ \E k \in 0 .. VISIBLE_CARDS_IN_STACK_PAGE - 1 : GenerateSummaryClick(k)
    \/ \E req \in BagToSet(summarizeInFlight) :
          \E answer \in POST(GEMINI_API_KEY, req.body) \cup {FetchFailed} :
              SummarizeSettle(req, answer)
    \/ \E body \in Bodies : \E answer \in POST(GEMINI_API_KEY, body) :
          ExternalPost(body, answer)

SpecSummary == InitSummary /\ [][NextSummary]_vars

(* The papers endpoint on its own. *)
NextPapers == \E searchParams \in SearchParams : PapersGet(searchParams)

SpecPapers == Init /\ [][NextPapers]_vars

----------------------------------------------------------------------------
(* The paper detail page, library/[paperId]/page.tsx. *)

ChatMessage(role, content) == [role |-> role, content |-> content]

(* The effect of lines 30-41: the paper of the route is looked up in the   *)
(* liked list; when it is missing the router leaves the page.              *)
findPaperEffect(s) ==
    LET d == s.detailPage
        found == {i \in DOMAIN s.likedPapers : s.likedPapers[i].id = Val(d.paperId)}
    IN  IF d.paperId = Null \/ found = {}
        THEN s
        ELSE [s EXCEPT !.detailPage.paper =
                  Some(s.likedPapers[CHOOSE i \in found : \A j \in found : i <= j])]

(* What fetch('/api/ask-ai') can come to: an answer, a status that is not  *)
(* ok with or without an error text in its body, or a rejection.           *)
AskAiResponse(ok, rejected, error, answer) ==
    [ok |-> ok, rejected |-> rejected, error |-> error, answer |-> answer]

AskAiResponses ==
    {AskAiResponse(TRUE, FALSE, Null, <<"answer">>),
     AskAiResponse(FALSE, FALSE, Some("no pdf"), <<>>),
     AskAiResponse(FALSE, FALSE, Null, <<>>),
     AskAiResponse(FALSE, TRUE, Null, <<>>)}

(* The message of the Error the catch block receives. *)
AskAiErrorMessage(response) ==
    IF response.rejected THEN "failed to fetch"
    ELSE IF response.error # Null THEN Val(response.error)
    ELSE "status"

(* handleAskAi up to its await. *)
handleAskAi(s) ==
    LET d == s.detailPage
    IN  IF \/ Trim(d.question) = <<>>
           \/ d.paper = Null
           \/ Val(d.paper).pdfLink = ""
           \/ d.isAskingAi
        THEN s
        ELSE [s EXCEPT
                !.detailPage = [d EXCEPT
                    !.isAskingAi = TRUE,
                    !.aiError = Null,
                    !.chatHistory = Append(@, ChatMessage("user", d.question)),
                    !.question = <<>>],
                !.askInFlight = @ (+) SetToBag({[question |-> d.question,
                                                 pdfUrl |-> Val(d.paper).pdfLink]})]

(* Variant of handleAskAiSettle whose catch block only sets aiError. *)
handleAskAiSettleSilentOnError(s, response) ==
    LET d == s.detailPage
    IN  IF response.ok
        THEN [s EXCEPT !.detailPage = [d EXCEPT
                  !.chatHistory = Append(@, ChatMessage("ai", response.answer)),
                  !.isAskingAi = FALSE]]
        ELSE [s EXCEPT !.detailPage = [d EXCEPT
                  !.aiError = Some(AskAiErrorMessage(response)),
                  !.isAskingAi = FALSE]]

(* handleAskAi from its await on: try, catch and finally. *)
handleAskAiSettle(s, response) ==
    LET d == s.detailPage
    IN  IF response.ok
        THEN [s EXCEPT !.detailPage = [d EXCEPT
                  !.chatHistory = Append(@, ChatMessage("ai", response.answer)),
                  !.isAskingAi = FALSE]]
        ELSE [s EXCEPT !.detailPage = [d EXCEPT
                  !.aiError = Some(AskAiErrorMessage(response)),
                  !.chatHistory = Append(@, ChatMessage("ai",
                                      <<"error: ", AskAiErrorMessage(response)>>)),
                  !.isAskingAi = FALSE]]

(* The chat form is on the page: the paper was found. *)
ChatFormRendered == detailPage.paper # Null

Questions == {<<>>, <<" ">>, <<"q">>, <<"q", " ">>}

FindPaper ==
    /\ detailPage.paper = Null
    /\ findPaperEffect(Cur) # Cur
    /\ Becomes([findPaperEffect(Cur) EXCEPT !.ev = [op |-> "findPaper"]])

(* The textarea's onChange; the textarea is disabled while isAskingAi. *)
SetQuestion(value) ==
    /\ ChatFormRendered
    /\ ~detailPage.isAskingAi
    /\ value # detailPage.question
    /\ Becomes([Cur EXCEPT !.detailPage.question = value,
                           !.ev = [op |-> "setQuestion", value |-> value]])

(* A submit event reaches the form (the button, or requestSubmit()). *)
AskSubmit ==
    /\ ChatFormRendered
    /\ Len(detailPage.chatHistory) + 2 <= MaxChatLen \/ askInFlight # EmptyBag
    /\ Becomes([handleAskAi(Cur) EXCEPT
                  !.ev = [op |-> "askSubmit", question |-> detailPage.question,
                          wasAsking |-> detailPage.isAskingAi]])

AskSettle(req, response) ==
    Becomes([handleAskAiSettle([Cur EXCEPT !.askInFlight = @ (-) SetToBag({req})],
                               response)
             EXCEPT !.ev = [op |-> "askSettle", response |-> response]])

DetailLiked == AsPapers(<<"a01", "a02">>)

InitDetail ==
    \E paperId \in {"a01", "a02", "b01"} :
        StartsAs([Mounted EXCEPT !.likedPapers = DetailLiked,
                                 !.localStorageItem = JSONstringify(DetailLiked),
                                 !.detailPage.paperId = Some(paperId)])

NextDetail ==
    \/ FindPaper
    \/ \E value \in Questions : SetQuestion(value)
    \/ AskSubmit
    \/ \E req \in BagToSet(askInFlight) :
          \E response \in AskAiResponses : AskSettle(req, response)

SpecDetail == InitDetail /\ [][NextDetail]_vars

(* The liked-paper store on its own: what its users (the home page, the    *)
(* library page) may call, in any order.                                   *)
StorePapers ==
    {[id |-> i, isEndOfFeedCard |-> FALSE, aiSummary |-> a, pdfLink |-> PdfLinkOf(i)] :
        i \in {"a01", "a02", "b01"}, a \in {"", "summary"}}

StoreAdd(paper) ==
    /\ Len(addLikedPaper(likedPapers, paper)) <= MaxStoreLen
    /\ Becomes([Cur EXCEPT
           !.likedPapers = addLikedPaper(@, paper),
           !.ev = [op |-> "addLikedPaper", paper |-> paper,
                   wasLiked |-> isPaperLiked(Cur, paper.id)]])

StoreRemove(paperId) ==
    Becomes([Cur EXCEPT !.likedPapers = removeLikedPaper(@, paperId),
                        !.ev = [op |-> "removeLikedPaper", paperId |-> paperId]])

NextStore ==
    \/ \E paper \in StorePapers : StoreAdd(paper)
    \/ \E paper \in StorePapers : StoreRemove(paper.id)

SpecStore == Init /\ [][NextStore]_vars

(* The store from its first render on, in a browser whose storage holds    *)
(* any of InitialStorage under the key.                                    *)
StoreLists ==
    {<<>>} \cup {<<p>> : p \in StorePapers}
           \cup {l \in {<<p, q>> : p \in StorePapers, q \in StorePapers} : NoDuplicateIds(l)}

InitialStorage ==
    {LocalStorageNull, [text |-> ""], [text |-> "{corrupt"], [text |-> "{}"],
     JSONstringify(<<[id |-> "a01", title |-> Null]>>),
     JSONstringify(<<[title |-> "t"]>>)}
        \cup {JSONstringify(l) : l \in StoreLists}

FirstRender ==
    [Mounted EXCEPT !.isLoadingPersistence = TRUE, !.pendingLoad = Null]

InitPersistence ==
    \E item \in InitialStorage : StartsAs([FirstRender EXCEPT !.localStorageItem = item])

(* The effects of the first render run, in the order of their definition:  *)
(* the save effect sees the isLoadingPersistence of the first render.      *)
MountEffects ==
    /\ isLoadingPersistence
    /\ pendingLoad = Null
    /\ Becomes([saveEffect(loadEffect(Cur)) EXCEPT
                  !.ev = [op |-> "mountEffects", found |-> localStorageItem]])

(* The render the load effect asked for. *)
LoadCommit ==
    /\ pendingLoad # Null
    /\ Becomes([Cur EXCEPT !.likedPapers = Val(pendingLoad),
                           !.isLoadingPersistence = FALSE,
                           !.pendingLoad = Null,
                           !.ev = [op |-> "loadCommit", found |-> ev.found]])

StoreUpdateSummary(paperId, aiSummary) ==
    Becomes([Cur EXCEPT
        !.likedPapers = updateLikedPaperSummary(@, paperId, aiSummary),
        !.ev = [op |-> "updateLikedPaperSummary", paperId |-> paperId]])

StoreClear ==
    Becomes([Cur EXCEPT !.likedPapers = clearLikedPapers(@),
                        !.ev = [op |-> "clearLikedPapers"]])

(* No handler of a consumer runs before the provider's first effects and   *)
(* the render they ask for are done.                                       *)
NextPersistence ==
    \/ MountEffects
    \/ LoadCommit
    \/ /\ ~isLoadingPersistence
       /\ \/ \E paper \in StorePapers : StoreAdd(paper)
          \/ \E paper \in StorePapers : StoreRemove(paper.id)
          \/ \E paper \in StorePapers : StoreUpdateSummary(paper.id, paper.aiSummary)
          \/ StoreClear

SpecPersistence == InitPersistence /\ [][NextPersistence]_vars

(* ---------------------------------------------------------------------- *)
(* Properties of the home page.                                            *)
(* ---------------------------------------------------------------------- *)

NewSearchOps == {"searchSubmit", "reload"}

(* C1: every commit's cursor advance (the firing of its fly-out timer)     *)
(* increases currentPaperIndex by exactly 1, and between two searches no   *)
(* step decreases it.                                                      *)
C1_CursorPlusOnePerCommit ==
    [][/\ ev'.op = "flyOut" => currentPaperIndex' = currentPaperIndex + 1
       /\ ev'.op \notin NewSearchOps => currentPaperIndex' >= currentPaperIndex]_vars

(* C2: in every reachable state 0 <= currentPaperIndex <= Len(papers).     *)
C2_CursorWithinResultSet ==
    0 <= currentPaperIndex /\ currentPaperIndex <= Len(papers)

(* C3: in every reachable state no two entries of papers have the same id. *)
C3_NoDuplicateIdsInResultSet == NoDuplicateIds(papers)

(* The additional-page requests a step issues. *)
MoreRequestsIssued ==
    {req \in BagToSet(inFlight') :
        /\ ~req.isInitialOrNewSearch
        /\ CopiesIn(req, inFlight') > CopiesIn(req, inFlight)}

(* C4: no step issues an additional-page request for a term for which a    *)
(* page shorter than MAX_RESULTS_PER_FETCH_PAGE has arrived since the last *)
(* search submission.                                                      *)
C4_NoMoreFetchAfterShortPage ==
    [][\A req \in MoreRequestsIssued : req.term \notin shortSeen']_vars

(* C5: in every reachable state at most one fetch is in flight.            *)
C5_AtMostOneFetchInFlight == BagCardinality(inFlight) <= 1

(* C10: a page shorter than MAX_RESULTS_PER_FETCH_PAGE arrives: its papers *)
(* with ids not yet in the result set are appended to the papers of the    *)
(* result set, the end-of-feed card follows if the result is non-empty,    *)
(* and hasMorePapers becomes false; a page of MAX_RESULTS_PER_FETCH_PAGE   *)
(* arrives: its new papers are appended, no end-of-feed card is added,     *)
(* hasMorePapers is true, and isLoading is false unless the additional-    *)
(* load effect at once requests the next page.                             *)
C10_PageAppendedOnCompletion ==
    [][ev'.op = "resolve" =>
        LET data == ev'.data
            present == Ids(RealPapers(papers))
            IsNew(p) == p.id \notin present
            merged == RealPapers(papers) \o SelectSeq(data, IsNew)
        IN  IF Len(data) < MAX_RESULTS_PER_FETCH_PAGE
            THEN /\ papers' = IF merged # <<>> THEN Append(merged, EndOfFeedCard)
                                               ELSE merged
                 /\ ~hasMorePapers'
                 /\ ~isLoading'
            ELSE /\ papers' = merged
                 /\ hasMorePapers'
                 /\ isLoading' => MoreRequestsIssued # {}]_vars

----------------------------------------------------------------------------
(* Properties of the touch gesture.                                        *)

(* C6: a drag in progress on a card is released with displacement dx: the  *)
(* release commits accept (flies right) iff dx > 70, commits reject (flies *)
(* left) iff dx < -70, and for -70 <= dx <= 70 returns to the neutral      *)
(* state with no fly-out timer set and the liked list unchanged.           *)
C6_ReleaseCommitsStrictlyBeyondThreshold ==
    [][(/\ ev'.op = "touchEnd"
        /\ Dragging
        /\ touchCurrentX # Null
        /\ currentPaperIndex < Len(papers)) =>
        LET dx == Val(touchCurrentX) - Val(touchStartX)
            committed == Len(flyTimers') = Len(flyTimers) + 1
        IN  /\ dx > SWIPE_THRESHOLD_PAGE <=>
                  (committed /\ interactionState'.flyingDirection = "right")
            /\ dx < -SWIPE_THRESHOLD_PAGE <=>
                  (committed /\ interactionState'.flyingDirection = "left")
            /\ (dx <= SWIPE_THRESHOLD_PAGE /\ dx >= -SWIPE_THRESHOLD_PAGE) =>
                  /\ interactionState' = NeutralInteraction
                  /\ flyTimers' = flyTimers
                  /\ likedPapers' = likedPapers]_vars

C6_Witness ==
    /\ ev.op = "touchEnd"
    /\ interactionState.flyingDirection = "right"
    /\ touchStartX # Null
    /\ touchCurrentX # Null
    /\ Val(touchCurrentX) - Val(touchStartX) = SWIPE_THRESHOLD_PAGE + 1
    /\ flyTimers # <<>>

(* C7: the touch-move of a drag whose displacement is a vertical scroll    *)
(* resets the gesture to the neutral state, and from then until the next   *)
(* touch-start no touch-move and no release sets a flying direction, sets  *)
(* a fly-out timer or changes the liked list.                              *)
C7_VerticalScrollNeverCommits ==
    [][/\ (ev'.op = "touchMove" /\ ~vScrolled /\ vScrolled') =>
              interactionState' = NeutralInteraction
       /\ (vScrolled /\ ev'.op \in {"touchMove", "touchEnd"}) =>
              /\ interactionState'.flyingDirection = interactionState.flyingDirection
              /\ flyTimers' = flyTimers
              /\ likedPapers' = likedPapers]_vars

C7_Witness ==
    /\ vScrolled
    /\ ev.op = "touchEnd"
    /\ interactionState = NeutralInteraction
    /\ flyTimers = <<>>

----------------------------------------------------------------------------
(* Properties of the liked-paper store.                                    *)

(* C8: the liked list never holds two entries of one id, and adding a      *)
(* paper and then a paper of the same id gives the list of the first add,  *)
(* with exactly one entry of that id.                                      *)
C8_AddLikedPaperIdempotent ==
    /\ NoDuplicateIds(likedPapers)
    /\ \A p \in StorePapers, q \in StorePapers :
          p.id = q.id =>
              LET once == addLikedPaper(likedPapers, p)
                  twice == addLikedPaper(once, q)
              IN  /\ twice = once
                  /\ Cardinality({i \in DOMAIN twice : twice[i].id = p.id}) = 1

C8_Witness ==
    /\ ev.op = "addLikedPaper"
    /\ ev.wasLiked
    /\ Len(likedPapers) = MaxStoreLen
    /\ \E i \in DOMAIN likedPapers :
          likedPapers[i].id = ev.paper.id /\ likedPapers[i] # ev.paper

----------------------------------------------------------------------------
(* Properties of a search submission.                                      *)

(* C9: a search with term t submitted while no fetch is loading empties    *)
(* papers, sets currentPaperIndex to 0 and hasMorePapers to true, and      *)
(* issues exactly one request, for term t at offset 0.                     *)
C9_NewSearchResets ==
    [][(ev'.op = "searchSubmit" /\ ~isLoading) =>
        LET t == Trim(ev'.searchQuery)
        IN  /\ papers' = <<>>
            /\ currentPaperIndex' = 0
            /\ hasMorePapers'
            /\ currentSearchTerm' = t
            /\ isLoading'
            /\ inFlight' = inFlight (+) SetToBag({Request(TRUE, t, 0)})]_vars

C9_Witness ==
    /\ ev.op = "searchSubmit"
    /\ ~ev.wasLoading
    /\ ev.wasExhausted
    /\ ev.hadPapers
    /\ currentSearchTerm = <<"q">>
    /\ papers = <<>>
    /\ BagIn(Request(TRUE, <<"q">>, 0), inFlight)

----------------------------------------------------------------------------
(* Properties of a failed fetch.                                           *)

(* The requests a step issues, of either kind. *)
RequestsIssued ==
    {req \in BagToSet(inFlight') : CopiesIn(req, inFlight') > CopiesIn(req, inFlight)}

(* C11: a failed additional-page fetch sets hasMorePapers to false and     *)
(* leaves papers and currentPaperIndex unchanged; a failed initial or      *)
(* new-search fetch leaves papers empty and sets the load-error message;   *)
(* both set isLoading to false, and the step issues no request.            *)
C11_FailedFetch ==
    [][ev'.op = "reject" =>
        /\ IF ev'.req.isInitialOrNewSearch
           THEN papers' = <<>> /\ message' = "loadError"
           ELSE /\ ~hasMorePapers'
                /\ papers' = papers
                /\ currentPaperIndex' = currentPaperIndex
        /\ ~isLoading'
        /\ RequestsIssued = {}
        /\ inFlight' = inFlight (-) SetToBag({ev'.req})]_vars

C11_Witness ==
    /\ ev.op = "reject"
    /\ ~ev.req.isInitialOrNewSearch
    /\ Len(papers) = MAX_RESULTS_PER_FETCH_PAGE
    /\ currentPaperIndex >= MAX_RESULTS_PER_FETCH_PAGE - VISIBLE_CARDS_IN_STACK_PAGE
    /\ ~hasMorePapers
    /\ ~isLoading

----------------------------------------------------------------------------
(* Properties of a commit.                                                 *)

(* The liked list after paper p was added to it once. *)
LikedWith(p) ==
    IF p.id \in Ids(likedPapers) THEN likedPapers ELSE Append(likedPapers, p)

(* The step is a commit of the given direction: a press of a button or a   *)
(* release that set the flying direction and a fly-out timer.              *)
CommitStep(op, direction) ==
    \/ ev'.op = op
    \/ /\ ev'.op = "touchEnd"
       /\ interactionState.flyingDirection = "null"
       /\ interactionState'.flyingDirection = direction
       /\ Len(flyTimers') = Len(flyTimers) + 1

(* C12: a committed accept makes the liked list the old list with          *)
(* papers[currentPaperIndex] added once if its id was not in it; a         *)
(* committed reject leaves the liked list unchanged.                       *)
C12_AcceptLikesPaperAtCursor ==
    [][/\ CommitStep("likeClick", "right") =>
              /\ currentPaperIndex < Len(papers)
              /\ likedPapers' = LikedWith(papers[currentPaperIndex + 1])
       /\ CommitStep("dislikeClick", "left") => likedPapers' = likedPapers]_vars

(* A card is flying out: a direction is committed and its timer pending. *)
FlyingOut == interactionState.flyingDirection # "null" /\ flyTimers # <<>>

(* C13: while a card is flying out, a release and a press of the like or   *)
(* dislike button leave the liked list and the pending fly-out timers      *)
(* unchanged.                                                              *)
C13_InputIgnoredWhileFlying ==
    [][(FlyingOut /\ ev'.op \in {"touchEnd", "likeClick", "dislikeClick"}) =>
           /\ likedPapers' = likedPapers
           /\ flyTimers' = flyTimers]_vars

----------------------------------------------------------------------------
(* Progress.  A timer that was set fires (setTimeout, part_012:127, 197,   *)
(* 202), and a request in flight is answered or fails; the user is never   *)
(* obliged to act.                                                         *)

FetchSettles ==
    \E req \in BagToSet(inFlight) :
        \/ \E data \in Responses(req) : FetchResolve(req, data)
        \/ FetchReject(req)

LiveSwipe ==
    /\ SpecSwipe
    /\ WF_vars(FlyOutTimer)
    /\ WF_vars(CanFetchMoreTimer)
    /\ WF_vars(FetchSettles)

(* The positions a commit can be made at. *)
CursorPositions == 0 .. Len(Catalogue(<<>>))

(* A commit was just made: the last step pressed a button or released      *)
(* beyond the threshold, and its card is flying out.                       *)
JustCommitted ==
    /\ ev.op \in {"likeClick", "dislikeClick", "touchEnd"}
    /\ FlyingOut

(* C14: a commit made at cursor c is eventually followed by a state with   *)
(* currentPaperIndex = c + 1 and the neutral gesture state.                *)
C14_CommitAdvancesCursor ==
    \A c \in CursorPositions :
        (JustCommitted /\ currentPaperIndex = c)
            ~> (currentPaperIndex = c + 1 /\ interactionState = NeutralInteraction)
RequestsFor(paperId, inflight) ==
    BagCardinality([req \in {r \in BagToSet(inflight) : r.paperId = paperId} |->
                       CopiesIn(req, inflight)])

C17_OneSummaryRequestPerPaper ==
    [][/\ \A req \in BagToSet(summarizeInFlight') :
              RequestsFor(req.paperId, summarizeInFlight') <= 1
       /\ (ev'.op = "generateSummaryClick" /\ summarizeInFlight # EmptyBag) =>
              /\ summarizeInFlight' = summarizeInFlight
              /\ isSummarizing' = isSummarizing]_vars

(* The button of another paper, which has a document link and no summary, *)
(* was pressed while a request was outstanding.                            *)
C17_Witness ==
    /\ ev.op = "generateSummaryClick"
    /\ ev.wasSummarizing # Null
    /\ ev.paper.pdfLink # ""
    /\ ev.paper.aiSummary = ""
    /\ BagCardinality(summarizeInFlight) = 1
    /\ \A req \in BagToSet(summarizeInFlight) : req.paperId # ev.paper.id
(* ---------------------------------------------------------------------- *)
(* C18 as stated: no request in flight from the page has an empty          *)
(* document link, and the endpoint answers a JSON body without a usable    *)
(* pdfUrl (missing, no string, or empty) with 400, the generation API not  *)
(* called.                                                                 *)
NoDocumentUrl(body) ==
    body.parses /\ (body.pdfUrl.type # "string" \/ body.pdfUrl.value = "")

ClientSendsDocumentLink ==
    \A req \in BagToSet(summarizeInFlight') : req.body.pdfUrl.value # ""

C18_NoRequestWithoutDocumentLink ==
    [][/\ ClientSendsDocumentLink
       /\ (ev'.op = "post" /\ NoDocumentUrl(ev'.body)) =>
              ev'.answer.status = 400 /\ ~ev'.answer.generationCalled]_vars

(* C18, amended: the answer is 400 when the server has its API key and     *)
(* 500 when it has none; the generation API is called in neither case.     *)
C18_NoRequestWithoutDocumentLinkAmended ==
    [][/\ ClientSendsDocumentLink
       /\ (ev'.op = "post" /\ NoDocumentUrl(ev'.body)) =>
              /\ ~ev'.answer.generationCalled
              /\ ev'.answer.status = IF GEMINI_API_KEY # Null THEN 400 ELSE 500]_vars

(* The endpoint, with its key set, has answered a body whose pdfUrl is    *)
(* the empty string, while the page has a request in flight.               *)
C18_Witness ==
    /\ ev.op = "post"
    /\ GEMINI_API_KEY # Null
    /\ ev.body.parses /\ ev.body.pdfUrl = JSONString("")
    /\ ev.answer.status = 400
    /\ summarizeInFlight # EmptyBag
(* ---------------------------------------------------------------------- *)
(* C19: an end-of-results placeholder of the Result Set is its last        *)
(* element, so there is at most one.                                       *)
IsPlaceholder(p) == p.isEndOfFeedCard \/ p.id = END_OF_FEED_CARD_ID_PAGE

C19_AtMostOneTrailingPlaceholder ==
    \A i \in DOMAIN papers : IsPlaceholder(papers[i]) => i = Len(papers)

(* A short additional page of an earlier search arrived after a new       *)
(* search: the placeholder is behind the papers of the page.               *)
C19_Witness ==
    /\ ev.op = "resolve"
    /\ ~ev.req.isInitialOrNewSearch
    /\ ev.data # <<>> /\ ~PageIsFull(ev.data)
    /\ ev.req.term # currentSearchTerm
    /\ IsPlaceholder(papers[Len(papers)])
    /\ \E i \in DOMAIN papers : papers[i] = ev.data[Len(ev.data)]
(* ---------------------------------------------------------------------- *)
(* C20: an additional page P arrives while the papers of the Result Set    *)
(* are R: the papers are then R followed by the papers of P whose id is    *)
(* not in R, in P's order, and their number is |R| plus the number of      *)
(* identifiers of P that are not in R.                                     *)
C20_AdditionalPageMerged ==
    [][(ev'.op = "resolve" /\ ~ev'.req.isInitialOrNewSearch) =>
        LET R == RealPapers(papers)
            P == ev'.data
            IsNew(p) == p.id \notin Ids(R)
        IN  /\ RealPapers(papers') = R \o SelectSeq(P, IsNew)
            /\ Len(RealPapers(papers')) = Len(R) + Cardinality(Ids(P) \ Ids(R))]_vars
(* ---------------------------------------------------------------------- *)
(* C21: with a stack of two cards and papers in the Result Set, a step     *)
(* issues an additional-page request exactly when, after the step's        *)
(* updates, the cursor is at least the number of papers minus the stack    *)
(* size, no other fetch is in flight and hasMorePapers is true.            *)
C21_MoreFetchExactlyAtThreshold ==
    [][LET n == Len(RealPapers(papers'))
           issued == MoreRequestsIssued
           others == {req \in BagToSet(inFlight') : req \notin issued}
       IN  n > 0 =>
               (issued # {} <=>
                   /\ currentPaperIndex' >= n - VISIBLE_CARDS_IN_STACK_PAGE
                   /\ others = {}
                   /\ hasMorePapers')]_vars
(* ---------------------------------------------------------------------- *)
(* C22: the user is never left on a dead end: in a state where the cursor  *)
(* has reached the last buffered papers (or passed them), more results may *)
(* exist and no fetch is in flight, a timer is still pending whose firing  *)
(* can issue the additional-page fetch; otherwise only user input could.   *)
C22_NoDeadEndWithoutPendingWork ==
    LET n == Len(RealPapers(papers))
    IN  (/\ n > 0
         /\ currentPaperIndex >= n - VISIBLE_CARDS_IN_STACK_PAGE
         /\ hasMorePapers
         /\ inFlight = EmptyBag) =>
            (refTimers > 0 \/ flyTimers # <<>>)
(* ---------------------------------------------------------------------- *)
(* C23: a touch-start sets isSwiping only when no card is flying out; a    *)
(* touch-start while flyingDirection is set leaves the gesture state and   *)
(* the three touch references unchanged.                                   *)
C23_TouchStartIgnoredWhileFlying ==
    [][ev'.op = "touchStart" =>
        /\ (interactionState'.isSwiping /\ ~interactionState.isSwiping) =>
               interactionState.flyingDirection = "null"
        /\ interactionState.flyingDirection # "null" =>
               /\ interactionState' = interactionState
               /\ <<touchStartX, touchCurrentX, touchStartY>>' =
                      <<touchStartX, touchCurrentX, touchStartY>>]_vars

(* A touch-start arrived while a card was flying out and a fly-out timer   *)
(* was pending.                                                            *)
C23_Witness ==
    /\ ev.op = "touchStart"
    /\ interactionState.flyingDirection # "null"
    /\ ~interactionState.isSwiping
    /\ flyTimers # <<>>
(* ---------------------------------------------------------------------- *)
(* C24: a gesture in progress (dragging or flying out) returns to the      *)
(* neutral state only on a fly-out completion, a touch release or a        *)
(* touch-move; a committed direction is cleared only by a fly-out          *)
(* completion, which advances the cursor - never by a fetch that starts    *)
(* or completes while the card flies out.                                  *)
C24_CommittedDirectionKeptUntilAdvance ==
    [][LET InProgress(i) == i.isSwiping \/ i.flyingDirection # "null"
       IN  (InProgress(interactionState) /\ ~InProgress(interactionState')) =>
               /\ ev'.op \in {"flyOut", "touchEnd", "touchMove"}
               /\ interactionState.flyingDirection # "null" =>
                      /\ ev'.op = "flyOut"
                      /\ currentPaperIndex' = currentPaperIndex + 1]_vars
(* ---------------------------------------------------------------------- *)
(* C25: the release of a drag with |dx| <= 70 returns the gesture to the   *)
(* neutral state and changes nothing else: cursor, result set, liked       *)
(* list, search term, pagination flags, requests in flight and timers      *)
(* stay as they were.                                                      *)
C25_ReleaseBelowThresholdOnlyResets ==
    [][(/\ ev'.op = "touchEnd"
        /\ Dragging
        /\ touchCurrentX # Null
        /\ Abs(Val(touchCurrentX) - Val(touchStartX)) <= SWIPE_THRESHOLD_PAGE) =>
        /\ interactionState' = NeutralInteraction
        /\ UNCHANGED <<currentPaperIndex, papers, likedPapers, currentSearchTerm,
                       isLoading, hasMorePapers, canFetchMoreRef, inFlight,
                       flyTimers, refTimers, message>>]_vars

(* A drag of exactly 70 to the right was released on a card and the        *)
(* gesture is neutral again.                                               *)
C25_Witness ==
    /\ ev.op = "touchEnd"
    /\ ev.diffX = Some(SWIPE_THRESHOLD_PAGE)
    /\ interactionState = NeutralInteraction
    /\ currentPaperIndex < Len(papers)
    /\ flyTimers = <<>>
(* ---------------------------------------------------------------------- *)
(* C26: the provider's initial load found the item absent, or a string     *)
(* that is not valid JSON, or a value that is not an array of entries with *)
(* a string id and a string title: the render that ends the load has an    *)
(* empty liked list and isLoadingPersistence false.                        *)
C26_UnusableStorageLoadsEmpty ==
    [][LET found == ev'.found
           Entry(e) == "id" \in DOMAIN e /\ ("title" \in DOMAIN e => e.title # Null)
           Usable == /\ found.text = "array"
                     /\ \A i \in DOMAIN found.items : Entry(found.items[i])
       IN  (ev'.op = "loadCommit" /\ ~Usable) =>
               /\ likedPapers' = <<>>
               /\ ~isLoadingPersistence'
               /\ pendingLoad' = Null]_vars

(* The load found an array whose entry has no title; the list is empty,    *)
(* the load is over and the item was replaced by the empty list's.         *)
C26_Witness ==
    /\ ev.op = "loadCommit"
    /\ ev.found = JSONstringify(<<[id |-> "a01", title |-> Null]>>)
    /\ likedPapers = <<>>
    /\ ~isLoadingPersistence
    /\ localStorageItem = JSONstringify(<<>>)
(* ---------------------------------------------------------------------- *)
(* C27: a summarize request of the home page settles.  Failed (no answer   *)
(* or a status other than 200): the result set is unchanged, the paper of  *)
(* the request has no summary, isSummarizing is null and the page accepts  *)
(* the same request again.  Succeeded: the papers with the request's id    *)
(* carry the summary, every other paper and the order are unchanged, and   *)
(* isSummarizing is null.                                                  *)
C27_SummarySettleTouchesOnlyItsPaper ==
    [][ev'.op = "summarizeSettle" =>
        LET req == ev'.req
            answer == ev'.answer
            again == generateAiSummary(Cur', req.paperId, req.body.pdfUrl.value)
        IN  /\ isSummarizing' = Null
            /\ answer.status # 200 =>
                   /\ papers' = papers
                   /\ \A i \in DOMAIN papers' :
                          papers'[i].id = req.paperId => papers'[i].aiSummary = ""
                   /\ again.isSummarizing = Some(req.paperId)
                   /\ again.summarizeInFlight = summarizeInFlight' (+) SetToBag({req})
            /\ answer.status = 200 =>
                   /\ Len(papers') = Len(papers)
                   /\ \A i \in DOMAIN papers :
                          papers'[i] = IF papers[i].id = req.paperId
                                       THEN [papers[i] EXCEPT !.aiSummary = answer.summary]
                                       ELSE papers[i]]_vars

(* A request failed with the generation API's error and left the result    *)
(* set without a summary; the paper of the request is still in the stack.  *)
C27_Witness ==
    /\ ev.op = "summarizeSettle"
    /\ ev.answer = Answer(500, TRUE, "")
    /\ isSummarizing = Null
    /\ Summarised(papers) = {}
    /\ \E k \in 0 .. VISIBLE_CARDS_IN_STACK_PAGE - 1 :
           /\ GenerateButtonShown(Cur, k)
           /\ papersInStack(Cur)[k + 1].id = ev.req.paperId
(* ---------------------------------------------------------------------- *)
(* C28: isPaperLiked(id) is true exactly when the liked list holds a paper *)
(* of that id; removeLikedPaper(id) gives the list without the papers of   *)
(* that id, the others in their order; addLikedPaper puts a paper whose id *)
(* is not in the list at the end and leaves the list as it is otherwise,   *)
(* so the list is in the order of first insertion.                         *)
C28_LikedStoreOperations ==
    [][/\ \A p \in StorePapers :
              isPaperLiked(Cur', p.id) <=>
                  \E i \in DOMAIN likedPapers' : likedPapers'[i].id = p.id
       /\ ev'.op = "removeLikedPaper" =>
              /\ \A i \in DOMAIN likedPapers' : likedPapers'[i].id # ev'.paperId
              /\ LET Other(p) == p.id # ev'.paperId
                 IN  likedPapers' = SelectSeq(likedPapers, Other)
       /\ ev'.op = "addLikedPaper" =>
              likedPapers' = IF \E i \in DOMAIN likedPapers :
                                    likedPapers[i].id = ev'.paper.id
                             THEN likedPapers
                             ELSE likedPapers \o <<ev'.paper>>]_vars

(* The second of two liked papers was removed after the list was loaded    *)
(* from storage: the first is left.                                        *)
C28_Witness ==
    /\ ev.op = "removeLikedPaper"
    /\ ~isLoadingPersistence
    /\ Len(likedPapers) = MaxStoreLen - 1
    /\ likedPapers[1].id # ev.paperId
    /\ localStorageItem = JSONstringify(likedPapers)
(* ---------------------------------------------------------------------- *)
(* C29: the completion of a fetch (answered or failed) and the completion  *)
(* of a summarize request keep every paper of the result set at its index: *)
(* the papers before the step are, id by id, a prefix of the papers after  *)
(* it.  The list is replaced only by the submission of a search.           *)
C29_ResultSetAppendOnly ==
    [][ev'.op \in {"resolve", "reject", "summarizeSettle"} =>
        LET old == RealPapers(papers)
            new == RealPapers(papers')
        IN  /\ Len(new) >= Len(old)
            /\ \A i \in DOMAIN old : new[i].id = old[i].id]_vars
(* ---------------------------------------------------------------------- *)
(* C30: /api/papers asks the arXiv API for the default category ordered by *)
(* submission date when the request has no query parameter or a blank one, *)
(* and for the trimmed query ordered by relevance otherwise.               *)
C30_DefaultCategoryOrTrimmedQuery ==
    [][ev'.op = "get" =>
        LET query == ev'.searchParams.query
            sent == ev'.queryParams
            Blank(q) == \A i \in DOMAIN q : q[i] = " "
        IN  IF query = Null \/ Blank(Val(query))
            THEN /\ sent.search_query = DEFAULT_CATEGORY
                 /\ sent.sortBy = "submittedDate"
            ELSE /\ sent.search_query = Trim(Val(query))
                 /\ sent.search_query # <<>>
                 /\ Head(sent.search_query) # " "
                 /\ sent.search_query[Len(sent.search_query)] # " "
                 /\ sent.sortBy = "relevance"]_vars

(* A request with the query " q " was answered from the arXiv query for    *)
(* "q" by relevance.                                                       *)
C30_Witness ==
    /\ ev.op = "get"
    /\ ev.searchParams.query = Some(<<" ", "q", " ">>)
    /\ ev.queryParams.search_query = <<"q">>
    /\ ev.queryParams.sortBy = "relevance"
(* ---------------------------------------------------------------------- *)
(* C31: /api/papers passes the start and max_results of the request on to  *)
(* the arXiv API (0 and MAX_RESULTS when the request has none), so a       *)
(* request at offset k asks for the page that begins at result k.          *)
C31_OffsetAndPageSizeForwarded ==
    [][ev'.op = "get" =>
        LET asked == ev'.searchParams
            sent == ev'.queryParams
        IN  /\ sent.start = IF asked.start = Null THEN 0 ELSE Val(asked.start)
            /\ sent.max_results = IF asked.max_results = Null THEN MAX_RESULTS
                                  ELSE Val(asked.max_results)]_vars
(* ---------------------------------------------------------------------- *)
(* C32: every additional-page request a step issues has as offset the      *)
(* number of papers (end-of-feed card not counted) of the result set at    *)
(* that moment, and every initial or new-search request has offset 0.      *)
C32_RequestOffsets ==
    [][\A req \in RequestsIssued :
           req.offset = IF req.isInitialOrNewSearch THEN 0
                        ELSE Len(RealPapers(papers'))]_vars

(* The additional-load effect has just asked for the page after a full     *)
(* first page.                                                             *)
C32_Witness ==
    /\ ev.op = "flyOut"
    /\ isLoading
    /\ Len(RealPapers(papers)) = MAX_RESULTS_PER_FETCH_PAGE
    /\ inFlight = SetToBag({Request(FALSE, currentSearchTerm, MAX_RESULTS_PER_FETCH_PAGE)})
(* ---------------------------------------------------------------------- *)
(* C33: with a fetch and a summarize request in flight, processing the     *)
(* fetch completion and the summary completion in either order gives the   *)
(* same result set, hasMorePapers and isLoading; and a summary completion  *)
(* leaves currentPaperIndex, hasMorePapers and isLoading as they were.     *)
C33_SummaryAndFetchCompletionsCommute ==
    [][/\ \A req \in BagToSet(inFlight) : \A sreq \in BagToSet(summarizeInFlight) :
          \A data \in Responses(req) :
          \A answer \in POST(GEMINI_API_KEY, sreq.body) \cup {FetchFailed} :
              LET resolve(s) ==
                      Render(s, fetchPapersResolve(
                                    [s EXCEPT !.inFlight = @ (-) SetToBag({req})],
                                    req, data), TRUE)
                  settle(s) ==
                      Render(s, generateAiSummarySettle(
                                    [s EXCEPT !.summarizeInFlight = @ (-) SetToBag({sreq})],
                                    sreq, answer), answer.status = 200)
                  fetchFirst == settle(resolve(Cur))
                  summaryFirst == resolve(settle(Cur))
              IN  /\ fetchFirst.papers = summaryFirst.papers
                  /\ fetchFirst.hasMorePapers = summaryFirst.hasMorePapers
                  /\ fetchFirst.isLoading = summaryFirst.isLoading
       /\ ev'.op = "summarizeSettle" =>
              /\ currentPaperIndex' = currentPaperIndex
              /\ hasMorePapers' = hasMorePapers
              /\ isLoading' = isLoading]_vars
C35_LoadingIffFetchInFlight == isLoading <=> inFlight # EmptyBag
(* ---------------------------------------------------------------------- *)
(* C36: when no fetch is in flight, every paper of the result set is a     *)
(* result of the current search term, and a response to a request of       *)
(* another term changes neither the result set nor hasMorePapers.          *)
C36_OnlyPapersOfCurrentSearch ==
    [][/\ inFlight' = EmptyBag =>
              LET cat == Catalogue(currentSearchTerm')
              IN  Ids(RealPapers(papers')) \subseteq {cat[i] : i \in DOMAIN cat}
       /\ (ev'.op \in {"resolve", "reject"} /\ ev'.req.term # currentSearchTerm) =>
              /\ papers' = papers
              /\ hasMorePapers' = hasMorePapers]_vars
(* ---------------------------------------------------------------------- *)
(* C37: whenever the result set holds the end-of-feed card, hasMorePapers  *)
(* is false.                                                               *)
C37_PlaceholderOnlyWhenExhausted ==
    (\E i \in DOMAIN papers : IsPlaceholder(papers[i])) => ~hasMorePapers

(* A short, non-empty additional page has just put the end-of-feed card    *)
(* behind twelve papers.                                                   *)
C37_Witness ==
    /\ ev.op = "resolve"
    /\ ~ev.req.isInitialOrNewSearch
    /\ ev.data # <<>> /\ ~PageIsFull(ev.data)
    /\ Len(RealPapers(papers)) = MAX_RESULTS_PER_FETCH_PAGE + 2
    /\ IsPlaceholder(papers[Len(papers)])
    /\ ~hasMorePapers
(* ---------------------------------------------------------------------- *)
(* C38: on the paper detail page a submit while a question is outstanding  *)
(* changes nothing; an accepted question appends exactly one user message  *)
(* and its completion, answer or failure, exactly one ai message; and      *)
(* whenever no request is outstanding the chat history has even length and *)
(* alternates user, ai, user, ai.                                          *)
Alternates(history) ==
    /\ Len(history) % 2 = 0
    /\ \A i \in DOMAIN history :
          history[i].role = IF i % 2 = 1 THEN "user" ELSE "ai"

C38_ChatAlternates ==
    [][/\ (ev'.op = "askSubmit" /\ askInFlight # EmptyBag) =>
              /\ detailPage' = detailPage
              /\ askInFlight' = askInFlight
       /\ (ev'.op = "askSubmit" /\ askInFlight' # askInFlight) =>
              /\ detailPage'.chatHistory =
                     Append(detailPage.chatHistory, ChatMessage("user", ev'.question))
              /\ BagCardinality(askInFlight') = 1
       /\ (ev'.op = "askSubmit" /\ askInFlight' = askInFlight) =>
              detailPage'.chatHistory = detailPage.chatHistory
       /\ ev'.op = "askSettle" =>
              /\ Len(detailPage'.chatHistory) = Len(detailPage.chatHistory) + 1
              /\ SubSeq(detailPage'.chatHistory, 1, Len(detailPage.chatHistory))
                     = detailPage.chatHistory
              /\ detailPage'.chatHistory[Len(detailPage'.chatHistory)].role = "ai"
       /\ ev'.op \notin {"askSubmit", "askSettle"} =>
              detailPage'.chatHistory = detailPage.chatHistory
       /\ askInFlight' = EmptyBag => Alternates(detailPage'.chatHistory)
       /\ detailPage'.isAskingAi <=> askInFlight' # EmptyBag]_vars

C38_Witness ==
    /\ ev.op = "askSettle"
    /\ ~ev.response.ok
    /\ askInFlight = EmptyBag
    /\ Len(detailPage.chatHistory) = 4
    /\ detailPage.chatHistory[2].content = <<"answer">>
    /\ detailPage.chatHistory[4].content = <<"error: ", "failed to fetch">>
(* ---------------------------------------------------------------------- *)
(* C39: isSwiping and flyingDirection are never both set: the card is      *)
(* never dragged and flying out at once, whatever the order of touch       *)
(* events, button presses, fetch starts and fly-out timers.                *)
C39_NeverSwipingAndFlying ==
    ~(interactionState.isSwiping /\ interactionState.flyingDirection # "null")

C39_Witness ==
    /\ ev.op = "likeClick"
    /\ touchStartX # Null
    /\ touchCurrentX # touchStartX
    /\ interactionState.flyingDirection = "right"
    /\ ~interactionState.isSwiping

====
